---- MODULE Spec2Model ----
(***************************************************************************)
(* Blog writing agent: the POST handler of app/api/generate/route.ts, its  *)
(* text helpers (getLengthWords, generateDemoContent, generateDemoKeywords,*)
(* extractOutline) and the generateBlog callback of the Home page.         *)
(*                                                                         *)
(* Strings are sequences of tokens.  The characters the code's string      *)
(* operations look at are tokens of their own: newline, tab, space at the  *)
(* ends of a run, '#', '{', '}', '[', ']', ':', ',' and the double quote.  *)
(* Every other token is an atom: a run of ordinary characters with no      *)
(* whitespace at its ends.                                                 *)
(***************************************************************************)
EXTENDS Integers, Sequences, FiniteSets, TLC

\* ------------------------------------------------------------------ bounds
MaxKeywords == 2
MaxReplyLines == 2
MaxLines == 2

VARIABLES
    pc, req, fetchCount, fetchState, prompt, demoCalls, reply, resp, raised, step,
    cpc, topic, tone, length, keywords, loading, blogPost, error, outcome, prevPost, sent,
    opc, text, outline

serverVars == <<pc, req, fetchCount, fetchState, prompt, demoCalls, reply, resp, raised, step>>
clientVars == <<cpc, topic, tone, length, keywords, loading, blogPost, error, outcome,
                prevPost, sent>>
outlineVars == <<opc, text, outline>>
vars == <<pc, req, fetchCount, fetchState, prompt, demoCalls, reply, resp, raised, step,
          cpc, topic, tone, length, keywords, loading, blogPost, error, outcome, prevPost, sent,
          opc, text, outline>>

\* ------------------------------------------------------- string primitives
NL == <<"\n">>

\* the regex class \s, and the characters String.prototype.trim removes
IsWs(c) == c \in {" ", "\t", "\n"}

\* Array.prototype.join
RECURSIVE Join(_, _)
Join(ss, sep) ==
    IF ss = <<>> THEN <<>>
    ELSE IF Len(ss) = 1 THEN ss[1]
    ELSE ss[1] \o sep \o Join(Tail(ss), sep)

\* String.prototype.split with a one-character separator: the pieces between
\* consecutive separators, one more piece than there are separators
Split(s, c) ==
    LET seps == {i \in 1..Len(s) : s[i] = c}
        n == Cardinality(seps)
        pos(k) == CHOOSE i \in seps : Cardinality({j \in seps : j < i}) = k - 1
        from(k) == IF k = 1 THEN 1 ELSE pos(k - 1) + 1
        to(k) == IF k = n + 1 THEN Len(s) ELSE pos(k) - 1
    IN  [k \in 1..(n + 1) |-> SubSeq(s, from(k), to(k))]

\* number of whitespace characters of s from position i on
RECURSIVE WsRun(_, _)
WsRun(s, i) == IF i <= Len(s) /\ IsWs(s[i]) THEN 1 + WsRun(s, i + 1) ELSE 0

RECURSIVE WsRunBack(_, _)
WsRunBack(s, i) == IF i >= 1 /\ IsWs(s[i]) THEN 1 + WsRunBack(s, i - 1) ELSE 0

\* String.prototype.trim
Trim(s) ==
    LET a == WsRun(s, 1)
    IN  IF a = Len(s) THEN <<>>
        ELSE SubSeq(s, a + 1, Len(s) - WsRunBack(s, Len(s)))

\* String.prototype.toLowerCase on the atoms in use
LowerTok(t) ==
    CASE t = "AI" -> "ai"
      [] t = "Ethics" -> "ethics"
      [] OTHER -> t

ToLowerCase(s) == [i \in 1..Len(s) |-> LowerTok(s[i])]

\* Array.prototype.slice(0, n)
Slice0(ss, n) == SubSeq(ss, 1, IF Len(ss) < n THEN Len(ss) ELSE n)

\* decimal rendering of the word counts in use
NumStr(n) == <<ToString(n)>>

\* ------------------------------------------------------------- JSON values
JUndef == [t |-> "undefined"]
JNull == [t |-> "null"]
JLit(a) == [t |-> "lit", s |-> a]
JStr(s) == [t |-> "str", s |-> s]
JArr(items) == [t |-> "arr", items |-> items]
JObj(members) == [t |-> "obj", members |-> members]

\* property read o[k] on an object value
Get(o, k) ==
    IF o.t = "obj" /\ \E i \in 1..Len(o.members) : o.members[i].k = k
    THEN o.members[CHOOSE i \in 1..Len(o.members) : o.members[i].k = k].v
    ELSE JUndef

\* property write: a repeated key keeps its place and takes the new value
SetMember(members, k, v) ==
    IF \E i \in 1..Len(members) : members[i].k = k
    THEN [i \in 1..Len(members) |->
             IF members[i].k = k THEN [k |-> k, v |-> v] ELSE members[i]]
    ELSE Append(members, [k |-> k, v |-> v])

StrArr(ss) == JArr([i \in 1..Len(ss) |-> JStr(ss[i])])

\* ----------------------------------------------------------- JSON.parse
\* On the token alphabet: objects, arrays, strings and the three literals.
\* A raw newline or tab inside a string is a syntax error; so is any other
\* token where a value is expected.
Fail == [ok |-> FALSE, v |-> JUndef, next |-> 0]

SkipWs(s, i) == i + WsRun(s, i)

RECURSIVE StrEnd(_, _)
StrEnd(s, i) ==
    IF i > Len(s) THEN 0
    ELSE IF s[i] = "\"" THEN i
    ELSE IF s[i] \in {"\n", "\t"} THEN 0
    ELSE StrEnd(s, i + 1)

ParseString(s, i) ==
    IF i > Len(s) \/ s[i] # "\"" THEN Fail
    ELSE LET j == StrEnd(s, i + 1)
         IN  IF j = 0 THEN Fail
             ELSE [ok |-> TRUE, v |-> JStr(SubSeq(s, i + 1, j - 1)), next |-> j + 1]

RECURSIVE ParseValue(_, _)
RECURSIVE ParseElements(_, _, _)
RECURSIVE ParseMembers(_, _, _)

ParseValue(s, i0) ==
    LET i == SkipWs(s, i0)
    IN  IF i > Len(s) THEN Fail
        ELSE IF s[i] = "\"" THEN ParseString(s, i)
        ELSE IF s[i] \in {"true", "false", "null"}
             THEN [ok |-> TRUE, v |-> IF s[i] = "null" THEN JNull ELSE JLit(s[i]), next |-> i + 1]
        ELSE IF s[i] = "["
             THEN LET j == SkipWs(s, i + 1)
                  IN  IF j <= Len(s) /\ s[j] = "]"
                      THEN [ok |-> TRUE, v |-> JArr(<<>>), next |-> j + 1]
                      ELSE ParseElements(s, i + 1, <<>>)
        ELSE IF s[i] = "{"
             THEN LET j == SkipWs(s, i + 1)
                  IN  IF j <= Len(s) /\ s[j] = "}"
                      THEN [ok |-> TRUE, v |-> JObj(<<>>), next |-> j + 1]
                      ELSE ParseMembers(s, i + 1, <<>>)
        ELSE Fail

ParseElements(s, i, acc) ==
    LET r == ParseValue(s, i)
    IN  IF ~r.ok THEN Fail
        ELSE LET j == SkipWs(s, r.next)
             IN  IF j > Len(s) THEN Fail
                 ELSE IF s[j] = "," THEN ParseElements(s, j + 1, Append(acc, r.v))
                 ELSE IF s[j] = "]"
                      THEN [ok |-> TRUE, v |-> JArr(Append(acc, r.v)), next |-> j + 1]
                 ELSE Fail

ParseMembers(s, i, acc) ==
    LET k == ParseString(s, SkipWs(s, i))
    IN  IF ~k.ok THEN Fail
        ELSE LET c == SkipWs(s, k.next)
             IN  IF c > Len(s) \/ s[c] # ":" THEN Fail
                 ELSE LET r == ParseValue(s, c + 1)
                      IN  IF ~r.ok THEN Fail
                          ELSE LET j == SkipWs(s, r.next)
                                   m == SetMember(acc, k.v.s, r.v)
                               IN  IF j > Len(s) THEN Fail
                                   ELSE IF s[j] = "," THEN ParseMembers(s, j + 1, m)
                                   ELSE IF s[j] = "}"
                                        THEN [ok |-> TRUE, v |-> JObj(m), next |-> j + 1]
                                   ELSE Fail

JSONParse(s) ==
    LET r == ParseValue(s, 1)
    IN  IF r.ok /\ SkipWs(s, r.next) = Len(s) + 1 THEN r ELSE Fail

\* ------------------------------------------------------------ route.ts
\* template-literal interpolation of a request field
ToStr(v) == IF v.t = "str" THEN v.s ELSE <<v.t>>

\* faulty variant: only a missing topic counts as empty
FalsyMissingOnly(v) == v.t \in {"undefined", "null"}

\* JavaScript truthiness of a request field
Falsy(v) == v.t \in {"undefined", "null"} \/ (v.t = "str" /\ v.s = <<>>)

\* faulty variant: 'long' falls through to the default
getLengthWordsNoLong(len) ==
    IF len.t = "str" /\ len.s = <<"short">> THEN 500
    ELSE 1000

getLengthWords(len) ==
    IF len.t = "str" /\ len.s = <<"short">> THEN 500
    ELSE IF len.t = "str" /\ len.s = <<"medium">> THEN 1000
    ELSE IF len.t = "str" /\ len.s = <<"long">> THEN 1500
    ELSE 1000

\* keywords.join(', ')
JoinKeywords(kw) == Join([i \in 1..Len(kw.items) |-> kw.items[i].s], <<",", " ">>)

PromptKeywordText(kw) ==
    IF Len(kw.items) > 0
    THEN NL \o <<"- Focus on these keywords", ":", " ">> \o JoinKeywords(kw)
    ELSE <<>>

BuildPrompt(topicS, toneS, wordCount, keywordText) ==
           <<"You are an expert blog writer. Write a complete", ",", " ", "engaging blog post with the following specifications", ":">> \o NL
        \o NL
        \o <<"- Topic", ":", " ">> \o topicS \o NL
        \o <<"- Tone", ":", " ">> \o toneS \o NL
        \o <<"- Target length", ":", " ", "approximately", " ">> \o NumStr(wordCount) \o <<" ", "words">> \o keywordText \o NL
        \o NL
        \o <<"Requirements", ":">> \o NL
        \o <<"1. Create a compelling title">> \o NL
        \o <<"2. Write a complete blog post with introduction", ",", " ", "body paragraphs", ",", " ", "and conclusion">> \o NL
        \o <<"3. Use the specified tone consistently">> \o NL
        \o <<"4. Make it informative", ",", " ", "well-structured", ",", " ", "and engaging">> \o NL
        \o <<"5. Include relevant examples or insights">> \o NL
        \o <<"6. Use proper paragraph breaks for readability">> \o NL
        \o NL
        \o <<"Format your response as a JSON object with this structure", ":">> \o NL
        \o <<"{">> \o NL
        \o <<" ", " ", "\"", "title", "\"", ":", " ", "\"", "The blog post title", "\"", ",">> \o NL
        \o <<" ", " ", "\"", "content", "\"", ":", " ", "\"", "The full blog post content with proper paragraph breaks", "\"", ",">> \o NL
        \o <<" ", " ", "\"", "keywords", "\"", ":", " ", "[", "\"", "keyword1", "\"", ",", " ", "\"", "keyword2", "\"", ",", " ", "\"", "keyword3", "\"", "]", ",">> \o NL
        \o <<" ", " ", "\"", "outline", "\"", ":", " ", "[", "\"", "Section 1", "\"", ",", " ", "\"", "Section 2", "\"", ",", " ", "\"", "Section 3", "\"", "]">> \o NL
        \o <<"}">> \o NL
        \o NL
        \o <<"Write the complete blog post now", ":">>

generateDemoContent(topicS, toneS, wordCount, kw) ==
    LET toneAdjective ==
            IF toneS = <<"professional">> THEN <<"comprehensive">>
            ELSE IF toneS = <<"casual">> THEN <<"friendly">>
            ELSE IF toneS = <<"formal">> THEN <<"thorough">>
            ELSE IF toneS = <<"humorous">> THEN <<"entertaining">>
            ELSE <<"engaging">>
        keywordText ==
            IF Len(kw.items) > 0
            THEN <<" ", "focusing on", " ">> \o JoinKeywords(kw)
            ELSE <<>>
    IN
               <<"Welcome to this", " ">> \o toneAdjective \o <<" ", "exploration of", " ">> \o topicS \o keywordText \o <<". In today's rapidly evolving landscape", ",", " ", "understanding this subject has become increasingly important for professionals and enthusiasts alike.">> \o NL
            \o NL
            \o <<"#", "#", " ", "Understanding the Fundamentals">> \o NL
            \o NL
            \o topicS \o <<" ", "represents a fascinating area of study and practice. At its core", ",", " ", "it encompasses several key principles that form the foundation of our understanding. These principles have evolved over time", ",", " ", "shaped by technological advances", ",", " ", "cultural shifts", ",", " ", "and innovative thinking from experts around the world.">> \o NL
            \o NL
            \o <<"The significance of", " ">> \o topicS \o <<" ", "cannot be overstated. It affects various aspects of our daily lives", ",", " ", "from how we work to how we interact with the world around us. By examining this topic closely", ",", " ", "we gain valuable insights that can inform our decisions and strategies moving forward.">> \o NL
            \o NL
            \o <<"#", "#", " ", "Current Landscape and Trends">> \o NL
            \o NL
            \o <<"The current state of", " ">> \o topicS \o <<" ", "is characterized by rapid innovation and transformation. Industry leaders and researchers are constantly pushing boundaries", ",", " ", "exploring new possibilities", ",", " ", "and challenging conventional wisdom. This dynamic environment creates both opportunities and challenges for those involved in the field.">> \o NL
            \o NL
            \o <<"Several emerging trends are worth noting", ":">> \o NL
            \o NL
            \o <<"**Innovation and Technology**", ":", " ", "New technologies are reshaping how we approach", " ">> \o topicS \o <<",", " ", "offering tools and capabilities that were unimaginable just a few years ago.">> \o NL
            \o NL
            \o <<"**Changing Perspectives**", ":", " ", "Our understanding of", " ">> \o topicS \o <<" ", "continues to evolve as we gather more data", ",", " ", "conduct more research", ",", " ", "and learn from real-world applications.">> \o NL
            \o NL
            \o <<"**Global Impact**", ":", " ", "The influence of", " ">> \o topicS \o <<" ", "extends across borders", ",", " ", "affecting communities and industries worldwide in profound ways.">> \o NL
            \o NL
            \o <<"#", "#", " ", "Practical Applications and Real-World Impact">> \o NL
            \o NL
            \o <<"Understanding", " ">> \o topicS \o <<" ", "from a theoretical perspective is valuable", ",", " ", "but seeing how it applies in practice brings the subject to life. Across various industries and sectors", ",", " ", "professionals are leveraging insights about", " ">> \o topicS \o <<" ", "to drive innovation", ",", " ", "solve problems", ",", " ", "and create value.">> \o NL
            \o NL
            \o <<"Consider the ways organizations are implementing strategies related to", " ">> \o topicS \o <<". Many have discovered that success requires a combination of technical expertise", ",", " ", "strategic thinking", ",", " ", "and adaptability. The most effective approaches often involve", ":">> \o NL
            \o NL
            \o <<"- Careful planning and analysis">> \o NL
            \o <<"- Collaboration across teams and disciplines">> \o NL
            \o <<"- Continuous learning and improvement">> \o NL
            \o <<"- Attention to both immediate needs and long-term goals">> \o NL
            \o NL
            \o <<"#", "#", " ", "Challenges and Considerations">> \o NL
            \o NL
            \o <<"No discussion of", " ">> \o topicS \o <<" ", "would be complete without acknowledging the challenges involved. Like any complex subject", ",", " ", "it presents obstacles that require careful navigation. Some of the most common challenges include", ":">> \o NL
            \o NL
            \o <<"**Complexity**", ":", " ", "The multifaceted nature of", " ">> \o topicS \o <<" ", "can be overwhelming", ",", " ", "particularly for those new to the field.">> \o NL
            \o NL
            \o <<"**Resource Constraints**", ":", " ", "Implementing best practices related to", " ">> \o topicS \o <<" ", "often requires investment in time", ",", " ", "money", ",", " ", "and expertise.">> \o NL
            \o NL
            \o <<"**Changing Environment**", ":", " ", "The rapid pace of change means that what works today may need adjustment tomorrow.">> \o NL
            \o NL
            \o <<"Despite these challenges", ",", " ", "the potential benefits make", " ">> \o topicS \o <<" ", "worthy of our attention and investment.">> \o NL
            \o NL
            \o <<"#", "#", " ", "Looking to the Future">> \o NL
            \o NL
            \o <<"As we look ahead", ",", " ", "the future of", " ">> \o topicS \o <<" ", "appears both exciting and uncertain. Emerging technologies", ",", " ", "shifting societal priorities", ",", " ", "and new discoveries will undoubtedly shape how we think about and engage with this subject in the years to come.">> \o NL
            \o NL
            \o <<"Experts predict several possible developments", ":">> \o NL
            \o NL
            \o <<"The integration of advanced technologies could revolutionize approaches to", " ">> \o topicS \o <<",", " ", "making processes more efficient and outcomes more predictable. Meanwhile", ",", " ", "growing awareness and understanding among the general public may lead to broader adoption of best practices and innovative solutions.">> \o NL
            \o NL
            \o <<"Sustainability and ethical considerations are likely to play an increasingly important role in discussions about", " ">> \o topicS \o <<". As we become more conscious of our impact and responsibilities", ",", " ", "these factors will influence how we approach challenges and opportunities in this area.">> \o NL
            \o NL
            \o <<"#", "#", " ", "Conclusion">> \o NL
            \o NL
            \o topicS \o <<" ", "represents a rich and rewarding area of exploration. Whether you're a seasoned professional or someone just beginning to learn about this subject", ",", " ", "there's always more to discover and understand.">> \o NL
            \o NL
            \o <<"The key takeaways from our discussion include the importance of staying informed about current trends", ",", " ", "being willing to adapt to change", ",", " ", "and recognizing both the opportunities and challenges inherent in", " ">> \o topicS \o <<". By maintaining curiosity", ",", " ", "seeking out reliable information", ",", " ", "and applying what we learn in practical ways", ",", " ", "we can make meaningful contributions to this field.">> \o NL
            \o NL
            \o <<"As you continue your journey with", " ">> \o topicS \o <<",", " ", "remember that knowledge is just the beginning. The real value comes from how we apply our understanding to create positive outcomes", ",", " ", "solve real problems", ",", " ", "and contribute to progress in meaningful ways.">> \o NL
            \o NL
            \o <<"Thank you for taking the time to explore", " ">> \o topicS \o <<" ", "with us. We hope this has provided valuable insights and sparked your interest in learning more about this fascinating subject.">>

generateDemoKeywords(topicS) ==
    LET words == Split(ToLowerCase(topicS), " ")
    IN  Slice0(words \o << <<"trends">>, <<"innovation">>, <<"future">> >>, 5)

\* faulty variant: the heading is pushed without trim()
extractOutlineUntrimmed(content) ==
    LET lines == Split(content, "\n")
        Marker(line) ==
            IF Len(line) >= 2 /\ line[1] = "#" /\ line[2] = "#" /\ WsRun(line, 3) > 0
            THEN 2 + WsRun(line, 3)
            ELSE 0
        hits == SelectSeq(lines, LAMBDA line : Marker(line) > 0)
        found == [i \in 1..Len(hits) |-> SubSeq(hits[i], Marker(hits[i]) + 1, Len(hits[i]))]
    IN  IF Len(found) > 0 THEN found
        ELSE << <<"Introduction">>, <<"Main Discussion">>, <<"Conclusion">> >>

extractOutline(content) ==
    LET lines == Split(content, "\n")
        \* length of the match of /^##\s+/ on a line, 0 when it does not match
        Marker(line) ==
            IF Len(line) >= 2 /\ line[1] = "#" /\ line[2] = "#" /\ WsRun(line, 3) > 0
            THEN 2 + WsRun(line, 3)
            ELSE 0
        Heading(line) == Trim(SubSeq(line, Marker(line) + 1, Len(line)))
        hits == SelectSeq(lines, LAMBDA line : Marker(line) > 0)
        found == [i \in 1..Len(hits) |-> Heading(hits[i])]
    IN  IF Len(found) > 0 THEN found
        ELSE << <<"Introduction">>, <<"Main Discussion">>, <<"Conclusion">> >>

\* content.match(/\{[\s\S]*\}/): from the first '{' to the last '}' after it
MatchBraces(s) ==
    LET opens == {i \in 1..Len(s) : s[i] = "{"}
        first == CHOOSE i \in opens : \A j \in opens : i <= j
        closes == {i \in 1..Len(s) : s[i] = "}" /\ i > first}
        last == CHOOSE i \in closes : \A j \in closes : j <= i
    IN  IF opens = {} \/ closes = {} THEN [found |-> FALSE, s |-> <<>>]
        ELSE [found |-> TRUE, s |-> SubSeq(s, first, last)]

\* lines[0].replace(/^#\s*/, '')
StripTitleMarker(line) ==
    IF Len(line) >= 1 /\ line[1] = "#"
    THEN SubSeq(line, 2 + WsRun(line, 2), Len(line))
    ELSE line

Field(k, v) == [k |-> <<k>>, v |-> v]

ErrorBody(msg) == JObj(<<Field("error", JStr(<<msg>>))>>)

Post(title, content, kws, outl) ==
    JObj(<<Field("title", JStr(title)), Field("content", JStr(content)),
           Field("keywords", kws), Field("outline", StrArr(outl))>>)

NoResponse == [status |-> 0, body |-> JUndef]

BadRequest == [status |-> 400, body |-> ErrorBody("Topic is required")]

\* faulty variant: the exception's name is sent to the client
CatchResponseLeaking(err) == [status |-> 500, body |-> ErrorBody(err)]

\* the outer catch block
CatchResponse(err) == [status |-> 500, body |-> ErrorBody("Failed to generate blog post")]

\* keywords.length > 0 ? keywords : generateDemoKeywords(topic)
KeywordsOrDemo(topicS, kw) ==
    IF Len(kw.items) > 0 THEN kw ELSE StrArr(generateDemoKeywords(topicS))

DemoOutline ==
    << <<"Introduction">>, <<"Key Concepts and Background">>,
       <<"Current Trends and Developments">>, <<"Practical Applications">>,
       <<"Future Outlook">>, <<"Conclusion">> >>

demoPost(topicS, toneS, wordCount, kw) ==
    Post(topicS \o <<":", " ", "A Comprehensive Guide">>,
         generateDemoContent(topicS, toneS, wordCount, kw),
         KeywordsOrDemo(topicS, kw),
         DemoOutline)

\* lines 21-77: from the entry to the outbound call
\*   act = "throw" | "respond" | "fetch"
Entry(body) ==
    IF body.t = "unparseable" THEN [act |-> "throw", err |-> "SyntaxError"]
    ELSE IF body.t \in {"null", "undefined"} THEN [act |-> "throw", err |-> "TypeError"]
    ELSE IF Falsy(Get(body, <<"topic">>)) THEN [act |-> "respond", resp |-> BadRequest]
    ELSE IF Get(body, <<"keywords">>).t \in {"null", "undefined"} THEN [act |-> "throw", err |-> "TypeError"]
    ELSE [act |-> "fetch",
          prompt |-> BuildPrompt(ToStr(Get(body, <<"topic">>)),
                                 ToStr(Get(body, <<"tone">>)),
                                 getLengthWords(Get(body, <<"length">>)),
                                 PromptKeywordText(Get(body, <<"keywords">>)))]

\* faulty variant: the call is issued a second time
IssueFetchTwice(n) == n + 2

\* the outbound call of line 60 is issued
IssueFetch(n) == n + 1

\* data.content[0].text
ReplyText(data) ==
    LET c == Get(data, <<"content">>)
        first == IF c.t = "arr" /\ Len(c.items) > 0 THEN c.items[1] ELSE JUndef
    IN  IF data.t \in {"null", "undefined"} \/ c.t \in {"null", "undefined"}
           \/ first.t \in {"null", "undefined"}
        THEN [ok |-> FALSE, v |-> JUndef]
        ELSE [ok |-> TRUE, v |-> Get(first, <<"text">>)]

\* lines 109-119: the inner catch block
Structured(content, topicS, kw) ==
    LET lines == Split(content, "\n")
        t0 == Trim(StripTitleMarker(lines[1]))
        title == IF t0 # <<>> THEN t0 ELSE topicS \o <<":", " ", "Insights and Analysis">>
        mainContent == Trim(Join(Tail(lines), NL))
    IN  Post(title, mainContent, KeywordsOrDemo(topicS, kw), extractOutline(mainContent))

\* lines 122-127
Wrapped(content, topicS, kw) ==
    Post(topicS \o <<":", " ", "A Comprehensive Guide">>, content,
         KeywordsOrDemo(topicS, kw), extractOutline(content))

\* lines 98-127: steps lists the returns tried, in order
Normalize(data, topicS, kw) ==
    LET t == ReplyText(data)
    IN  IF ~t.ok THEN [act |-> "throw", err |-> "TypeError", steps |-> <<>>]
        ELSE IF t.v.t # "str" THEN [act |-> "throw", err |-> "TypeError", steps |-> <<1, 2>>]
        ELSE LET m == MatchBraces(t.v.s)
                 p == JSONParse(m.s)
             IN  IF m.found /\ p.ok
                 THEN [act |-> "respond", steps |-> <<1>>,
                       resp |-> [status |-> 200, body |-> p.v]]
                 ELSE IF m.found
                 THEN [act |-> "respond", steps |-> <<1, 2>>,
                       resp |-> [status |-> 200, body |-> Structured(t.v.s, topicS, kw)]]
                 ELSE [act |-> "respond", steps |-> <<1, 3>>,
                       resp |-> [status |-> 200, body |-> Wrapped(t.v.s, topicS, kw)]]

\* ------------------------------------------------------ request inputs
TopicValues == {JUndef, JStr(<<>>), JStr(<<"AI">>), JStr(<<"AI", " ", "Ethics">>),
                JStr(<<"#", "#", " ", "AI">>)}
ToneValues == {JStr(<<"professional">>), JStr(<<"conversational">>)}
LengthValues == {JUndef, JStr(<<"short">>), JStr(<<"medium">>), JStr(<<"long">>),
                 JStr(<<"huge">>)}
KeywordAt(i) == IF i % 2 = 1 THEN <<"ai">> ELSE <<"ethics">>
KeywordValues ==
    {JUndef} \cup {StrArr([i \in 1..n |-> KeywordAt(i)]) : n \in 0..MaxKeywords}

\* a field that is undefined is absent from the JSON body
Opt(k, v) == IF v.t = "undefined" THEN <<>> ELSE <<Field(k, v)>>

Unparseable == [t |-> "unparseable"]

Bodies ==
    {Unparseable, JNull}
    \cup {JObj(Opt("topic", tp) \o Opt("tone", tn) \o Opt("length", ln) \o Opt("keywords", kw)) :
            tp \in TopicValues, tn \in ToneValues, ln \in LengthValues, kw \in KeywordValues}

\* ------------------------------------------------- replies of the LLM API
ReplyLines ==
    { <<>>,
      <<"#", " ", "My Title">>,
      <<"#", "#", " ", "Section">>,
      <<"{">>,
      <<"{", "oops", "}">>,
      <<"{", "\"", "title", "\"", ":", " ", "\"", "T", "\"", "}">>,
      <<"{", "\"", "title", "\"", ":", "\"", "T", "\"", ",", "\"", "content", "\"", ":", "\"", "C", "\"", ",",
        "\"", "keywords", "\"", ":", "[", "\"", "k", "\"", "]", ",",
        "\"", "outline", "\"", ":", "[", "\"", "O", "\"", "]", "}">> }

ReplyTexts == {Join(ls, NL) : ls \in UNION {[1..n -> ReplyLines] : n \in 1..MaxReplyLines}}

TextReply(s) ==
    JObj(<<Field("content",
                 JArr(<<JObj(<<Field("type", JStr(<<"text">>)), Field("text", JStr(s))>>)>>))>>)

Replies ==
    {JObj(<<>>),
     JObj(<<Field("content", JArr(<<>>))>>),
     JObj(<<Field("content", JArr(<<JObj(<<Field("type", JStr(<<"text">>))>>)>>))>>)}
    \cup {TextReply(s) : s \in ReplyTexts}

\* --------------------------------------------------------- POST handler
ReqTopic == ToStr(Get(req, <<"topic">>))
ReqTone == ToStr(Get(req, <<"tone">>))
ReqKeywords == Get(req, <<"keywords">>)
ReqWordCount == getLengthWords(Get(req, <<"length">>))

ServerInit ==
    /\ pc = "idle"
    /\ req = JUndef
    /\ fetchCount = 0
    /\ fetchState = "none"
    /\ prompt = <<>>
    /\ demoCalls = <<>>
    /\ reply = JUndef
    /\ resp = NoResponse
    /\ raised = "none"
    /\ step = <<>>

\* a request arrives
Receive(body) ==
    /\ pc = "idle"
    /\ pc' = "reqJson"
    /\ req' = body
    /\ fetchCount' = 0
    /\ fetchState' = "none"
    /\ prompt' = <<>>
    /\ demoCalls' = <<>>
    /\ reply' = JUndef
    /\ resp' = NoResponse
    /\ raised' = "none"
    /\ step' = <<>>
    /\ UNCHANGED <<clientVars, outlineVars>>

\* lines 23-77, after await req.json()
Start ==
    /\ pc = "reqJson"
    /\ LET e == Entry(req)
       IN  CASE e.act = "throw" ->
                  /\ raised' = e.err
                  /\ resp' = CatchResponse(e.err)
                  /\ pc' = "done"
                  /\ UNCHANGED <<fetchCount, fetchState, prompt>>
             [] e.act = "respond" ->
                  /\ resp' = e.resp
                  /\ pc' = "done"
                  /\ UNCHANGED <<raised, fetchCount, fetchState, prompt>>
             [] e.act = "fetch" ->
                  /\ fetchCount' = IssueFetch(fetchCount)
                  /\ fetchState' = "pending"
                  /\ prompt' = e.prompt
                  /\ pc' = "fetch"
                  /\ UNCHANGED <<raised, resp>>
    /\ UNCHANGED <<req, demoCalls, reply, step, clientVars, outlineVars>>

\* await fetch(...) rejects: the outer catch
FetchRejects ==
    /\ pc = "fetch"
    /\ fetchState' = "rejected"
    /\ raised' = "NetworkError"
    /\ resp' = CatchResponse("NetworkError")
    /\ pc' = "done"
    /\ UNCHANGED <<req, fetchCount, prompt, demoCalls, reply, step, clientVars, outlineVars>>

\* lines 79-96: !response.ok
FetchNotOk ==
    /\ pc = "fetch"
    /\ fetchState' = "notOk"
    /\ demoCalls' = Append(demoCalls, [topic |-> ReqTopic, tone |-> ReqTone,
                                       wordCount |-> ReqWordCount, keywords |-> ReqKeywords])
    /\ resp' = [status |-> 200, body |-> demoPost(ReqTopic, ReqTone, ReqWordCount, ReqKeywords)]
    /\ pc' = "done"
    /\ UNCHANGED <<req, fetchCount, prompt, reply, raised, step, clientVars, outlineVars>>

\* response.ok: on to await response.json()
FetchOk ==
    /\ pc = "fetch"
    /\ fetchState' = "ok"
    /\ pc' = "respJson"
    /\ UNCHANGED <<req, fetchCount, prompt, demoCalls, reply, resp, raised, step,
                   clientVars, outlineVars>>

\* await response.json() rejects: the outer catch
RespJsonRejects ==
    /\ pc = "respJson"
    /\ reply' = Unparseable
    /\ raised' = "SyntaxError"
    /\ resp' = CatchResponse("SyntaxError")
    /\ pc' = "done"
    /\ UNCHANGED <<req, fetchCount, fetchState, prompt, demoCalls, step, clientVars, outlineVars>>

\* lines 98-127
RespJsonResolves(data) ==
    /\ pc = "respJson"
    /\ reply' = data
    /\ LET n == Normalize(data, ReqTopic, ReqKeywords)
       IN  /\ step' = n.steps
           /\ IF n.act = "throw"
              THEN raised' = n.err /\ resp' = CatchResponse(n.err)
              ELSE raised' = raised /\ resp' = n.resp
    /\ pc' = "done"
    /\ UNCHANGED <<req, fetchCount, fetchState, prompt, demoCalls, clientVars, outlineVars>>

\* the response is sent; nothing of the request is kept
Finish ==
    /\ pc = "done"
    /\ pc' = "idle"
    /\ req' = JUndef
    /\ fetchCount' = 0
    /\ fetchState' = "none"
    /\ prompt' = <<>>
    /\ demoCalls' = <<>>
    /\ reply' = JUndef
    /\ resp' = NoResponse
    /\ raised' = "none"
    /\ step' = <<>>
    /\ UNCHANGED <<clientVars, outlineVars>>

ServerNext ==
    \/ \E body \in Bodies : Receive(body)
    \/ Start
    \/ FetchRejects
    \/ FetchNotOk
    \/ FetchOk
    \/ RespJsonRejects
    \/ \E data \in Replies : RespJsonResolves(data)
    \/ Finish

\* -------------------------------------------------- Home.generateBlog
RetryMessage == <<"Failed to generate blog post. Please try again.">>
BlankMessage == <<"Please enter a topic">>

FormTopics == {<<>>, <<" ">>, <<"AI">>, <<" ", "AI", " ", "Ethics">>}
FormTones == {<<"professional">>, <<"casual">>}
FormLengths == {<<"medium">>, <<"long">>}
FormKeywords == {<<>>, <<"ai", ",", " ", "ethics", ",">>}

\* bodies a 2xx response of /api/generate can carry
FetchedPosts ==
    {Post(<<"T">>, <<"C">>, StrArr(<< <<"ai">> >>), <<>>),
     demoPost(<<"AI">>, <<"casual">>, 1000, StrArr(<<>>)),
     JObj(<<>>)}

\* keywords.split(',').map(k => k.trim()).filter(k => k)
FormKeywordList(s) ==
    LET parts == Split(s, ",")
        trimmed == [i \in 1..Len(parts) |-> Trim(parts[i])]
    IN  SelectSeq(trimmed, LAMBDA k : k # <<>>)

\* the body of the request to /api/generate
FormBody ==
    JObj(<<Field("topic", JStr(topic)), Field("tone", JStr(tone)),
           Field("length", JStr(length)), Field("keywords", StrArr(FormKeywordList(keywords)))>>)

ClientInit ==
    /\ cpc = "idle"
    /\ topic = <<>>
    /\ tone = <<"professional">>
    /\ length = <<"medium">>
    /\ keywords = <<>>
    /\ loading = FALSE
    /\ blogPost = JNull
    /\ error = <<>>
    /\ outcome = "none"
    /\ prevPost = JNull
    /\ sent = JUndef

setTopic(v) ==
    /\ topic' = v
    /\ UNCHANGED <<cpc, tone, length, keywords, loading, blogPost, error, outcome, prevPost, sent,
                   serverVars, outlineVars>>

setTone(v) ==
    /\ tone' = v
    /\ UNCHANGED <<cpc, topic, length, keywords, loading, blogPost, error, outcome, prevPost, sent,
                   serverVars, outlineVars>>

setLength(v) ==
    /\ length' = v
    /\ UNCHANGED <<cpc, topic, tone, keywords, loading, blogPost, error, outcome, prevPost, sent,
                   serverVars, outlineVars>>

setKeywords(v) ==
    /\ keywords' = v
    /\ UNCHANGED <<cpc, topic, tone, length, loading, blogPost, error, outcome, prevPost, sent,
                   serverVars, outlineVars>>

\* the catch block of generateBlog
CatchError(prev) == RetryMessage

\* faulty variant: no finally block
FinallyLoadingKept(prev) == prev

\* the finally block of generateBlog
FinallyLoading(prev) == FALSE

\* lines 27-29
SubmitLoading(prev) == TRUE
SubmitPost(prev) == JNull

\* the button is disabled while loading; lines 22-43 run up to the await
generateBlog ==
    /\ ~loading
    /\ prevPost' = blogPost
    /\ IF Trim(topic) = <<>>
       THEN /\ error' = BlankMessage
            /\ outcome' = "blank"
            /\ UNCHANGED <<cpc, loading, blogPost, sent>>
       ELSE /\ loading' = SubmitLoading(loading)
            /\ error' = <<>>
            /\ blogPost' = SubmitPost(blogPost)
            /\ sent' = FormBody
            /\ cpc' = "fetch"
            /\ outcome' = "none"
    /\ UNCHANGED <<topic, tone, length, keywords, serverVars, outlineVars>>

\* fetch rejects: catch, finally
ClientFetchRejects ==
    /\ cpc = "fetch"
    /\ error' = CatchError(error)
    /\ loading' = FinallyLoading(loading)
    /\ cpc' = "idle"
    /\ outcome' = "network"
    /\ UNCHANGED <<topic, tone, length, keywords, blogPost, prevPost, sent, serverVars, outlineVars>>

\* !response.ok: throw, catch, finally
ClientFetchNotOk ==
    /\ cpc = "fetch"
    /\ error' = CatchError(error)
    /\ loading' = FinallyLoading(loading)
    /\ cpc' = "idle"
    /\ outcome' = "notok"
    /\ UNCHANGED <<topic, tone, length, keywords, blogPost, prevPost, sent, serverVars, outlineVars>>

\* response.ok: on to await response.json()
ClientFetchOk ==
    /\ cpc = "fetch"
    /\ cpc' = "json"
    /\ UNCHANGED <<topic, tone, length, keywords, loading, blogPost, error, outcome, prevPost, sent,
                   serverVars, outlineVars>>

\* response.json() rejects: catch, finally
ClientJsonRejects ==
    /\ cpc = "json"
    /\ error' = CatchError(error)
    /\ loading' = FinallyLoading(loading)
    /\ cpc' = "idle"
    /\ outcome' = "parse"
    /\ UNCHANGED <<topic, tone, length, keywords, blogPost, prevPost, sent, serverVars, outlineVars>>

\* setBlogPost(data), finally
ClientJsonResolves(data) ==
    /\ cpc = "json"
    /\ blogPost' = data
    /\ loading' = FinallyLoading(loading)
    /\ cpc' = "idle"
    /\ outcome' = "success"
    /\ UNCHANGED <<topic, tone, length, keywords, error, prevPost, sent, serverVars, outlineVars>>

ClientNext ==
    \/ \E v \in FormTopics : setTopic(v)
    \/ \E v \in FormTones : setTone(v)
    \/ \E v \in FormLengths : setLength(v)
    \/ \E v \in FormKeywords : setKeywords(v)
    \/ generateBlog
    \/ ClientFetchRejects
    \/ ClientFetchNotOk
    \/ ClientFetchOk
    \/ ClientJsonRejects
    \/ \E data \in FetchedPosts : ClientJsonResolves(data)

\* ----------------------------------------------- extractOutline on texts
OutlineLines ==
    { <<>>,
      <<"prose">>,
      <<"#", " ", "Title">>,
      <<"#", "#", " ", "Alpha">>,
      <<"#", "#", " ", " ", "Beta", " ">>,
      <<"#", "#", "\t", "Gamma">>,
      <<"#", "#", "Delta">>,
      <<"#", "#", "#", " ", "Epsilon">>,
      <<" ", "#", "#", " ", "Zeta">>,
      <<"#", "#", " ">> }

OutlineTexts == {Join(ls, NL) : ls \in UNION {[1..n -> OutlineLines] : n \in 1..MaxLines}}

OutlineIdle ==
    /\ opc = "input"
    /\ text = <<>>
    /\ outline = <<>>

\* extractOutline(text)
ExtractOutline ==
    /\ opc = "input"
    /\ outline' = extractOutline(text)
    /\ opc' = "done"
    /\ UNCHANGED <<text, serverVars, clientVars>>

\* the next text to scan
NextText(s) ==
    /\ opc = "done"
    /\ text' = s
    /\ outline' = <<>>
    /\ opc' = "input"
    /\ UNCHANGED <<serverVars, clientVars>>

OutlineNext ==
    \/ ExtractOutline
    \/ \E s \in OutlineTexts : NextText(s)

\* -------------------------------------------------------- specifications
Init == ServerInit /\ ClientInit /\ OutlineIdle

Next == ServerNext

Spec == Init /\ [][Next]_vars

SpecClient == Init /\ [][ClientNext]_vars

InitOutline == ServerInit /\ ClientInit /\ opc = "input" /\ text \in OutlineTexts /\ outline = <<>>

SpecOutline == InitOutline /\ [][OutlineNext]_vars

\* ------------------------------------------------------------ properties
HasErrorMessage(body) ==
    /\ body.t = "obj"
    /\ Len(body.members) = 1
    /\ Get(body, <<"error">>).t = "str"
    /\ Get(body, <<"error">>).s # <<>>

IsList(v) == v.t = "arr"

IsBlogPost(body) ==
    /\ body.t = "obj"
    /\ Get(body, <<"title">>).t = "str"
    /\ Get(body, <<"content">>).t = "str"
    /\ IsList(Get(body, <<"keywords">>))
    /\ IsList(Get(body, <<"outline">>))

GenericFailure == [status |-> 500, body |-> JObj(<<[k |-> <<"error">>, v |-> JStr(<<"Failed to generate blog post">>)]>>)]

TopicOf(body) == Get(body, <<"topic">>)

EmptyTopic(body) ==
    body.t = "obj" /\ (TopicOf(body).t = "undefined" \/ (TopicOf(body).t = "str" /\ Len(TopicOf(body).s) = 0))

NonEmptyTopic(body) ==
    body.t = "obj" /\ TopicOf(body).t = "str" /\ Len(TopicOf(body).s) > 0

\* C1: a request whose body has an empty or missing topic is answered with
\* status 400 and an error message; no outbound call is issued and the
\* fallback generator is not run, whatever tone, length and keywords are.
C1_EmptyTopicRejected ==
    (pc = "done" /\ EmptyTopic(req)) =>
        /\ resp.status = 400
        /\ HasErrorMessage(resp.body)
        /\ fetchCount = 0
        /\ fetchState = "none"
        /\ demoCalls = <<>>

C1_Witness ==
    /\ pc = "done"
    /\ EmptyTopic(req)
    /\ TopicOf(req).t = "str"
    /\ Get(req, <<"keywords">>).t = "undefined"
    /\ resp.status = 400

\* C2: with a non-empty topic, when the outbound call rejects or returns a
\* non-success status the endpoint answers with a success status and the
\* fallback post; no error body and no 4xx/5xx status reaches the user.
C2_OutboundFailureFallsBack ==
    (pc = "done" /\ NonEmptyTopic(req) /\ fetchState \in {"rejected", "notOk"}) =>
        /\ resp.status = 200
        /\ IsBlogPost(resp.body)
        /\ Get(resp.body, <<"error">>).t = "undefined"
        /\ Len(demoCalls) = 1

\* C3: every response is either a success whose body has the four fields
\* title, content, keywords (list) and outline (list), or a 400/500 whose
\* body is {error}; also on the path that returns the parsed LLM object.
C3_ResponseShapes ==
    pc = "done" =>
        \/ resp.status = 200 /\ IsBlogPost(resp.body)
        \/ resp.status \in {400, 500} /\ HasErrorMessage(resp.body)

\* the word count the specification assigns to a length value
TargetWords(len) ==
    CASE len.t = "str" /\ len.s = <<"short">> -> 500
      [] len.t = "str" /\ len.s = <<"medium">> -> 1000
      [] len.t = "str" /\ len.s = <<"long">> -> 1500
      [] OTHER -> 1000

IsPrefix(p, s) == Len(p) <= Len(s) /\ SubSeq(s, 1, Len(p)) = p

\* C4: short, medium and long give 500, 1000 and 1500 words and every other
\* length value, missing included, gives 1000; this is the number written in
\* the prompt's target-length line and handed to the fallback generator.
C4_WordCount ==
    /\ fetchCount > 0 =>
          LET n == TargetWords(Get(req, <<"length">>))
              ls == Split(prompt, "\n")
              target == {i \in 1..Len(ls) : IsPrefix(<<"- Target length">>, ls[i])}
          IN  /\ Cardinality(target) = 1
              /\ \A i \in target :
                    ls[i] = <<"- Target length", ":", " ", "approximately", " ",
                              ToString(n), " ", "words">>
    /\ \A i \in 1..Len(demoCalls) :
          demoCalls[i].wordCount = TargetWords(Get(req, <<"length">>))

C4_Witness ==
    /\ pc = "done"
    /\ Len(demoCalls) = 1
    /\ Get(req, <<"length">>) = JStr(<<"long">>)
    /\ demoCalls[1].wordCount = 1500

\* headings of the lines of s on which IsMarked holds, by position
HeadingsBy(s, IsMarked(_), Strip(_)) ==
    LET ls == Split(s, "\n")
        F[i \in 0..Len(ls)] ==
            IF i = 0 THEN <<>>
            ELSE IF IsMarked(ls[i]) THEN Append(F[i - 1], Trim(Strip(ls[i])))
            ELSE F[i - 1]
    IN  F[Len(ls)]

DefaultOutline == << <<"Introduction">>, <<"Main Discussion">>, <<"Conclusion">> >>

OrDefault(hs) == IF hs = <<>> THEN DefaultOutline ELSE hs

StartsWithHashHashSpace(line) == IsPrefix(<<"#", "#", " ">>, line)

StartsWithHashHashWs(line) ==
    Len(line) >= 3 /\ line[1] = "#" /\ line[2] = "#" /\ line[3] \in {" ", "\t"}

\* C5 as stated: the outline is exactly the headings of the lines that start
\* with '## ' (marker stripped, heading trimmed), in order, or the three-item
\* default when there is none; it is never empty.
C5_OutlineHashHashSpace ==
    opc = "done" =>
        /\ outline = OrDefault(HeadingsBy(text, StartsWithHashHashSpace,
                                          LAMBDA l : SubSeq(l, 4, Len(l))))
        /\ outline # <<>>

\* C5 amended: the outline is exactly the headings of the lines that start
\* with '##' followed by at least one whitespace character (a space or a
\* tab), what follows the '##' trimmed, in order, or the three-item default
\* when there is none; it is never empty.
C5_OutlineHeadings ==
    opc = "done" =>
        /\ outline = OrDefault(HeadingsBy(text, StartsWithHashHashWs,
                                          LAMBDA l : SubSeq(l, 3, Len(l))))
        /\ outline # <<>>

C5_Witness ==
    /\ opc = "done"
    /\ text = <<"#", "#", " ", " ", "Beta", " ", "\n", "#", "#", " ", "Alpha">>
    /\ outline = << <<"Beta">>, <<"Alpha">> >>

\* C6: the outline extracted from the fallback generator's content has
\* exactly six headings and equals the outline the fallback response reports.
C6_FallbackRoundTrip ==
    (pc = "done" /\ Len(demoCalls) = 1) =>
        LET o == extractOutline(Get(resp.body, <<"content">>).s)
        IN  /\ Len(o) = 6
            /\ Get(resp.body, <<"outline">>) = JArr([i \in 1..Len(o) |-> JStr(o[i])])

\* the reply payload carries no content[0].text string
LacksText(data) ==
    \/ Get(data, <<"content">>).t # "arr"
    \/ Len(Get(data, <<"content">>).items) = 0
    \/ Get(Get(data, <<"content">>).items[1], <<"text">>).t # "str"

Exceptional ==
    \/ req.t \in {"unparseable", "null"}
    \/ NonEmptyTopic(req) /\ Get(req, <<"keywords">>).t = "undefined"
    \/ fetchState = "rejected"
    \/ reply.t = "unparseable"
    \/ reply.t = "obj" /\ LacksText(reply)

\* C7: an exception at any step (unparseable body, no keywords list, a
\* rejected call, a reply without content[0].text) ends in status 500 with
\* the generic body; every request gets a response, and a 500 never carries
\* anything but the generic message.
C7_ExceptionsGive500 ==
    /\ pc = "done" => resp.status \in {200, 400, 500}
    /\ (pc = "done" /\ Exceptional) => resp = GenericFailure
    /\ raised # "none" => (pc = "done" /\ resp = GenericFailure)
    /\ resp.status = 500 => resp = GenericFailure

C7_Witness ==
    /\ pc = "done"
    /\ reply.t = "obj"
    /\ LacksText(reply)
    /\ raised = "TypeError"
    /\ resp = GenericFailure

InSeq(x, s) == \E i \in 1..Len(s) : s[i] = x

ReplyTextOf(data) == Get(Get(data, <<"content">>).items[1], <<"text">>).s

NoBraceObject(s) ==
    ~(\E i, j \in 1..Len(s) : i < j /\ s[i] = "{" /\ s[j] = "}")

\* C8: the three normalization steps are tried in order: when step 1 does
\* not produce the response, for want of a brace-delimited object or of a
\* parse, step 2 is attempted; step 3 only follows an attempt of step 2.
C8_NormalizationOrder ==
    (pc = "done" /\ reply.t = "obj" /\ ~LacksText(reply)) =>
        /\ step # <<>> /\ step[1] = 1
        /\ step[Len(step)] # 1 => InSeq(2, step)
        /\ NoBraceObject(ReplyTextOf(reply)) => InSeq(2, step)
        /\ InSeq(3, step) => InSeq(2, step)

\* C9: at most one outbound call per request; after a rejection or a
\* non-success status the handler is done without a further call; a response
\* exists only once an issued call has completed.
C9_SingleOutboundCall ==
    /\ fetchCount <= 1
    /\ fetchCount = 1 <=> fetchState # "none"
    /\ fetchState \in {"rejected", "notOk"} => pc = "done"
    /\ (resp.status # 0 /\ fetchCount > 0) => fetchState \in {"rejected", "notOk", "ok"}
    /\ fetchState = "pending" => (pc = "fetch" /\ resp.status = 0)

C9_Witness ==
    /\ pc = "done"
    /\ fetchCount = 1
    /\ fetchState = "notOk"
    /\ resp.status = 200

\* C10: after a submission with a non-blank topic, loading is true and no
\* post is shown until generateBlog finishes; when it finishes loading is
\* false, and after a network failure, a non-ok status or an unparseable
\* body the error is the retry message and blogPost is null.
C10_ClientFailure ==
    /\ cpc \in {"fetch", "json"} => (loading /\ blogPost.t = "null" /\ error = <<>>)
    /\ cpc = "idle" => ~loading
    /\ (cpc = "idle" /\ outcome \in {"network", "notok", "parse"}) =>
          /\ error = <<"Failed to generate blog post. Please try again.">>
          /\ blogPost.t = "null"

C10_Witness ==
    /\ cpc = "idle"
    /\ outcome = "parse"
    /\ prevPost.t = "obj"
    /\ blogPost.t = "null"
    /\ ~loading

====
